---------------------------- MODULE Spec2Model ----------------------------
(***************************************************************************)
(* Part picker of faebryk (src/src/faebryk/libs/picker/picker.py):         *)
(*   - find_independent_groups, the equivalence grouper, as operators      *)
(*     applied to bounded inputs (specification SpecGroups);               *)
(*   - pick_topologically, the resolution driver, as a state machine       *)
(*     stepping through its phases (specification Spec);                   *)
(*   - update_pick_tree and PickErrorChildren.get_all_children, applied to *)
(*     bounded inputs (specifications SpecPrune, SpecFlatten).             *)
(* The solver, the catalog (picker_lib) and EquivalenceClasses are not     *)
(* part of the source files at hand: they are modelled at their interface. *)
(***************************************************************************)
EXTENDS Integers, FiniteSets, Sequences, TLC

\* ------------------------------------------------------------------ bounds
NumModules == 3      \* modules of a design
NumParams == 3       \* parameters of a design
NumLits == 2         \* literal values
MaxExprs == 2        \* expressions in an input of find_independent_groups
MaxCands == 2        \* length of a candidate list of the catalog
MaxEntries == 4      \* entries of a PickErrorChildren, nested ones counted
NumFiles == 3     \* parser: source files
MaxImports == 2   \* parser: import statements per file
MaxBuf == 3       \* StreamToLogger: characters per write
MaxText == 4      \* StreamToLogger: characters written in all

Modules == 1..NumModules
Params == 1..NumParams
Lits == 1..NumLits

VARIABLES
    gModules,   \* find_independent_groups: the `modules` argument (a set)
    gOwner,     \* Parameter -> owning Module (p.get_parent()[0])
    gExprs,     \* the constraint expressions found in the modules' graphs
    gState,     \* solver.reusable_state: <<>> (None) or <<parameter -> graph>>
    gOut,       \* result of the call: [status, groups], status "none" (not
                \* called), "returned" or "ContradictionByLiteral"
    pc,          \* position of pick_topologically
    tree,        \* the local `tree`: Module -> subtree (a function)
    tree0,       \* the tree as passed in
    explicitMods,\* modules with is_pickable_by_part_number / _by_supplier_id
    partOf,      \* Module -> attached part (0: no has_part_picked)
    candidates,  \* the local `candidates`: Module -> list of parts
    tree_backup, \* the local `tree_backup`
    err,         \* the exception pick_topologically ended with
    rounds,      \* history: iterations of the slow-pick loop started
    batches,     \* history: calls of check_and_attach_candidates
    firstSingles,\* history: single_part_modules of the first candidates
    groups,      \* history: find_independent_groups' result, last round
    heads,       \* history: group_heads of the last round
    everHead,    \* history: every module that was a group head
    attachCount, \* history: Module -> number of attach calls on it
    verified,    \* history: the modules given to the final solver call
    lookups,     \* history: calls of get_candidates (the catalog)
    reused,      \* history: modules given to a lookup or an attach call
                 \* while carrying a part
    asked,       \* history: the lists the last _get_single_candidate got
    callArgs,    \* a function called on its own: its arguments
    callRet,     \* ... and what its calls returned, in order
    imports,     \* parser: File -> the files its import statements resolve to
    stdForm,     \* parser: what Project.standardise_import_path gives
    file_stack,  \* Builder._file_stack
    block_stack, \* Builder._block_stack
    src_files,   \* Builder.model.src_files
    frames,      \* Builder: the visits in progress, innermost last
    visits,      \* history: File -> times its tree was visited
    bstatus,     \* Builder.build: "idle", "building", "done" or the exception
    linebuf,     \* StreamToLogger.linebuf
    logged,      \* the messages given to logger.log, in order
    written,     \* history: every character given to write, in order
    flushed      \* history: flush was called

gvars == <<gModules, gOwner, gExprs, gState, gOut>>
hvars == <<rounds, batches, firstSingles, groups, heads, everHead,
           attachCount, verified, lookups, reused, asked>>
dvars == <<pc, tree, tree0, explicitMods, partOf, candidates, tree_backup, err>>
bvars == <<imports, stdForm, file_stack, block_stack, src_files, frames, visits, bstatus>>
lvars == <<linebuf, logged, written, flushed>>
ovars == <<bvars, lvars>>
cvars == <<callArgs, callRet, ovars>>
vars == <<gvars, dvars, hvars, cvars>>

\* ------------------------------------------------- EquivalenceClasses (util)
\* A partition kept as a set of classes.
EqInit(base) == {{x} : x \in base}

\* add_eq(*values): all values end up in one class; values not seen before
\* are registered.
AddEq(classes, values) ==
    IF values = {} THEN classes
    ELSE LET touched == {c \in classes : c \cap values # {}}
         IN  (classes \ touched) \cup {UNION touched \cup values}

EqGet(classes) == classes

\* ------------------------------------------------------------- expressions
\* An expression node: kind "Is" or another ConstrainableExpression ("Ge"),
\* its constrained flag, its parameter operands and its literal operand
\* (0: none).
IsPair(c, p, q) == [kind |-> "Is", constrained |-> c, ps |-> {p, q}, lit |-> 0]
IsLit(c, p, l) == [kind |-> "Is", constrained |-> c, ps |-> {p}, lit |-> l]
GePair(c, p, q) == [kind |-> "Ge", constrained |-> c, ps |-> {p, q}, lit |-> 0]

ParamPairs == {pq \in Params \X Params : pq[1] < pq[2]}

ExprUniverse ==
    {IsPair(c, pq[1], pq[2]) : c \in BOOLEAN, pq \in ParamPairs}
    \cup {GePair(TRUE, pq[1], pq[2]) : pq \in ParamPairs}
    \cup {IsLit(TRUE, p, l) : p \in Params, l \in Lits}

RECURSIVE SubsetsUpTo(_, _)
SubsetsUpTo(S, n) ==
    IF n = 0 THEN {{}}
    ELSE LET smaller == SubsetsUpTo(S, n - 1)
         IN  smaller \cup {s \cup {x} : s \in smaller, x \in S}

ExprSets == SubsetsUpTo(ExprUniverse, MaxExprs)

\* Parameter ownership, up to renaming of parameters (the input sets of
\* InitGroups are the sets 1..k: any input is one of these up to renaming).
ParamOwners ==
    {o \in [Params -> Modules] : \A p, q \in Params : p < q => o[p] <= o[q]}

\* Parameter -> graph maps of a reusable solver state, up to renaming of graphs.
GraphMaps ==
    {g \in [Params -> Params] :
        \A p \in Params : g[p] = 1 \/ \E q \in 1..(p - 1) : g[q] >= g[p] - 1}

\* --------------------------------------------- find_independent_groups
\* First loop (lines 278-285): the literal recorded for each parameter that a
\* constrained Is relates to a literal.  The node order is the graph's, so
\* with two such expressions on one parameter either literal may be the one
\* kept: the possible `lits` dictionaries.
ConstrainedIs(exprs) == {e \in exprs : e.kind = "Is" /\ e.constrained}

DirectLits(exprs) ==
    LET withLit == {e \in ConstrainedIs(exprs) : e.lit # 0}
        dom == UNION {e.ps : e \in withLit}
    IN  {f \in [dom -> Lits] :
            \A p \in dom : \E e \in withLit : p \in e.ps /\ e.lit = f[p]}

RECURSIVE FoldEq(_, _)
\* add_eq over a set of operand sets, one expression after the other
FoldEq(classes, operandSets) ==
    IF operandSets = {} THEN classes
    ELSE LET s == CHOOSE x \in operandSets : TRUE
         IN  FoldEq(AddEq(classes, s), operandSets \ {s})

Aliased(exprs) == FoldEq(EqInit({}), {e.ps : e \in ConstrainedIs(exprs)})

\* lines 286-294: a class with two different literals is a contradiction
LitsOfGroup(lits, g) == {lits[p] : p \in g \cap DOMAIN lits}

LiteralContradiction(exprs, lits) ==
    \E g \in EqGet(Aliased(exprs)) : Cardinality(LitsOfGroup(lits, g)) > 1

\* lines 286-294: every member of a class with a literal is pinned to it;
\* the keys of `lits` after the loop
PinnedParams(exprs, lits) ==
    DOMAIN lits
    \cup UNION {g \in EqGet(Aliased(exprs)) : LitsOfGroup(lits, g) # {}}

\* (mutant) the constrained test inverted
ParamEqsInverted(exprs, lits) ==
    LET pinned == PinnedParams(exprs, lits)
    IN  FoldEq(EqInit({}), {e.ps \ pinned : e \in {x \in exprs : ~x.constrained}})

\* (mutant) the constrained test left out
ParamEqsUnfiltered(exprs, lits) ==
    LET pinned == PinnedParams(exprs, lits)
    IN  FoldEq(EqInit({}), {e.ps \ pinned : e \in exprs})

\* lines 297-305: parameters related by a constrained expression, the pinned
\* ones left out
ParamEqs(exprs, lits) ==
    LET pinned == PinnedParams(exprs, lits)
    IN  FoldEq(EqInit({}), {e.ps \ pinned : e \in {x \in exprs : x.constrained}})

\* lines 308-317: the modules owning the parameters of one class
PModules(modules, owner, p_eq) == {owner[p] : p \in p_eq} \cap modules

ModuleEqs(modules, owner, exprs, lits) ==
    FoldEq(EqInit(modules),
           {PModules(modules, owner, p_eq) : p_eq \in EqGet(ParamEqs(exprs, lits))})

\* lines 275-320: the constraint-walking path
Returned(gs) == [status |-> "returned", groups |-> gs]
Raised(exc) == [status |-> exc, groups |-> {}]
NotCalled == [status |-> "none", groups |-> {}]

WalkGroups(modules, owner, exprs, lits) ==
    IF LiteralContradiction(exprs, lits) THEN Raised("ContradictionByLiteral")
    ELSE Returned(EqGet(ModuleEqs(modules, owner, exprs, lits)))

\* lines 322-334: the path over the solver's reusable state
MGraphs(owner, state, m) == {state[p] : p \in {q \in Params : owner[q] = m}}

GraphToM(modules, owner, state, g) == {m \in modules : g \in MGraphs(owner, state, m)}

FastGroups(modules, owner, state) ==
    LET graphs == FoldEq(EqInit({}), {MGraphs(owner, state, m) : m \in modules})
    IN  Returned({UNION {GraphToM(modules, owner, state, g) : g \in gg} :
                     gg \in EqGet(graphs)})

\* lines 271-274: the path taken
NoState == <<>>
HasState(state) == state # NoState

\* ------------------------------------------------------------ pick tree
EmptyTree == <<>>
TreeKeys(t) == DOMAIN t

RECURSIVE TreeModules(_)
\* every module of a tree, at any depth
TreeModules(t) == TreeKeys(t) \cup UNION {TreeModules(t[k]) : k \in TreeKeys(t)}

HasPart(part, m) == part[m] # 0

RECURSIVE UpdatePickTree(_, _), UpdatePickTreeEmptyResolved(_, _), UpdatePickTreeNeverDone(_, _)
\* (mutant) an empty tree counts as resolved
UpdatePickTreeEmptyResolved(t, part) ==
    LET keep == {k \in TreeKeys(t) : ~HasPart(part, k) /\ TreeKeys(t[k]) # {}
                     /\ ~UpdatePickTreeEmptyResolved(t[k], part)[2]}
        filtered == [k \in keep |-> UpdatePickTreeEmptyResolved(t[k], part)[1]]
    IN  IF keep = {} THEN <<filtered, TRUE>> ELSE <<filtered, FALSE>>

\* (mutant) the flag is never set
UpdatePickTreeNeverDone(t, part) ==
    LET keep == {k \in TreeKeys(t) : ~HasPart(part, k)}
        filtered == [k \in keep |-> UpdatePickTreeNeverDone(t[k], part)[1]]
    IN  <<filtered, FALSE>>

\* (mutant) nothing is filtered out
UpdatePickTreeKeepsAll(t, part) == <<t, FALSE>>

\* update_pick_tree (lines 196-208): <<filtered tree, fully resolved>>
UpdatePickTree(t, part) ==
    IF TreeKeys(t) = {} THEN <<t, FALSE>>
    ELSE LET keep == {k \in TreeKeys(t) :
                        ~HasPart(part, k) /\ ~UpdatePickTree(t[k], part)[2]}
             filtered == [k \in keep |-> UpdatePickTree(t[k], part)[1]]
         IN  IF keep = {} THEN <<filtered, TRUE>> ELSE <<filtered, FALSE>>

\* The trees a run may be given: every forest over some of the modules
\* (parent[m]: -1 not in the tree, 0 top level, else the enclosing entry).
ParentMaps ==
    {f \in [Modules -> -1..NumModules] :
        \A m \in Modules :
            /\ f[m] < m
            /\ f[m] = -1 => \A n \in Modules : n > m => f[n] = -1}

RECURSIVE BuildTree(_, _)
BuildTree(f, root) == [k \in {m \in Modules : f[m] = root} |-> BuildTree(f, k)]

InitialTrees == {BuildTree(f, 0) : f \in ParentMaps}

\* _list_to_hack_tree (lines 337-338)
ListToHackTree(ms) == [m \in ms |-> EmptyTree]

\* ------------------------------------------------- catalog and solver
\* get_candidates' lists: ordered and not empty.  Parts are numbered by
\* the catalog's preference within a list: the list of n candidates is
\* <<n, ..., 1>>, so that index 0 holds a part no other index holds.
Parts == 1..MaxCands
CandLists == {[i \in 1..n |-> n + 1 - i] : n \in 1..MaxCands}

\* _find_modules for a module with an explicit part: exactly one candidate
ExplicitParts(ms) == [m \in ms |-> <<1>>]

NoErr == [type |-> "none", modules |-> {}, phase |-> "", cause |-> ""]
Exc(type, modules, phase, cause) ==
    [type |-> type, modules |-> modules, phase |-> phase, cause |-> cause]

\* get_candidates (picker_lib): a list per module of the tree, or a PickError
\* for a module without any candidate
CatalogOutcomes(keys) ==
    {[kind |-> "ok", cands |-> c, modules |-> {}, cause |-> ""] :
        c \in [keys -> CandLists]}
    \cup {[kind |-> "PickError", cands |-> <<>>, modules |-> {m},
           cause |-> "no candidates"] : m \in keys}

\* (mutant) what get_candidates raises is caught as well and re-raised on
\* the keys of _tree
GetCandidatesCatchesAll(t) ==
    {[kind |-> "PickError", cands |-> <<>>, modules |-> TreeKeys(t),
      cause |-> c] : c \in {"Contradiction", "no candidates"}}
    \cup {o \in CatalogOutcomes(TreeKeys(t)) : o.kind = "ok"}

\* _get_candidates (lines 377-393): a Contradiction of
\* solver.update_superset_cache becomes a PickError on the keys of _tree;
\* what get_candidates returns or raises passes through
GetCandidates(t) ==
    {[kind |-> "PickError", cands |-> <<>>, modules |-> TreeKeys(t),
      cause |-> "Contradiction"]}
    \cup CatalogOutcomes(TreeKeys(t))

\* _get_single_candidate (lines 395-397): index 0 of each module's list
FirstOf(cands) == [m \in DOMAIN cands |-> cands[m][1]]

\* attaching: has_part_picked set, the part recorded
Attach(part, parts) ==
    [m \in Modules |-> IF m \in DOMAIN parts THEN parts[m] ELSE part[m]]

Counted(count, ms) == [m \in Modules |-> IF m \in ms THEN count[m] + 1 ELSE count[m]]

\* The graph the slow-pick rounds hand to find_independent_groups is the
\* solver's and changes with every attach: a round may see any constraint
\* system of a bounded family, with or without a reusable solver state.
\* The family: the enforced equalities between parameters, and the literal
\* clashes (two related parameters aliased to different literals) on which
\* line 292 raises.  A literal alias that clashes with nothing only takes
\* parameters out of the grouping (line 304); the sets without the
\* equalities it disables give the same groups.
EnforcedLinks == {IsPair(TRUE, pq[1], pq[2]) : pq \in ParamPairs}

LiteralClashes ==
    {{IsPair(TRUE, pq[1], pq[2]), IsLit(TRUE, pq[1], lk[1]), IsLit(TRUE, pq[2], lk[2])} :
        pq \in ParamPairs, lk \in {x \in Lits \X Lits : x[1] # x[2]}}

RoundExprSets == SubsetsUpTo(EnforcedLinks, MaxExprs) \cup LiteralClashes

\* lines 261-334: the path is chosen by the solver's reusable state
FindIndependentGroups(modules, owner, exprs, lits, state) ==
    IF HasState(state) THEN FastGroups(modules, owner, state[1])
    ELSE WalkGroups(modules, owner, exprs, lits)

GraphSystems ==
    LET walkInputs == UNION {{<<x, l>> : l \in DirectLits(x)} : x \in RoundExprSets}
    IN  {<<o, xl[1], xl[2], NoState>> : o \in ParamOwners, xl \in walkInputs}
        \cup {<<o, {}, <<>>, <<g>>>> : o \in ParamOwners, g \in GraphMaps}

\* what find_independent_groups may give for each set of modules
GroupOutcomeTable ==
    {<<K, {FindIndependentGroups(K, s[1], s[2], s[3], s[4]) : s \in GraphSystems}>> :
        K \in SUBSET Modules}

\* find_independent_groups(candidates.keys(), solver) (line 453)
GroupOutcomes(K) == (CHOOSE t \in GroupOutcomeTable : t[1] = K)[2]

\* (mutant) the singleton groups are picked together with the others
SelectedGroupsAll(gs) == gs

\* lines 456-460: singleton groups first, then one head of each group
SelectedGroups(gs) ==
    LET singleton_groups == {g \in gs : Cardinality(g) = 1}
    IN  IF singleton_groups # {} THEN singleton_groups ELSE gs

\* (mutant) every member of the selected groups is a head
GroupHeadsAll(gs) == {UNION gs}

GroupHeads(gs) ==
    {{f[g] : g \in gs} : f \in {h \in [gs -> UNION gs] : \A g \in gs : h[g] \in g}}

\* (mutant) the heads are not taken out
RemainingKeepsHeads(cands, hs) == cands

\* lines 475-477
Remaining(cands, hs) == [m \in DOMAIN cands \ hs |-> cands[m]]

MaxRounds == NumModules + 2

\* ------------------------------------------------ pick_topologically
DriverIdle ==
    /\ pc = "idle"
    /\ tree = EmptyTree /\ tree0 = EmptyTree
    /\ explicitMods = {}
    /\ partOf = [m \in Modules |-> 0]
    /\ candidates = <<>>
    /\ tree_backup = {}
    /\ err = NoErr
    /\ rounds = 0 /\ batches = 0
    /\ firstSingles = {} /\ groups = {} /\ heads = {} /\ everHead = {}
    /\ attachCount = [m \in Modules |-> 0]
    /\ verified = {}
    /\ lookups = 0 /\ reused = {}
    /\ asked = <<>>

GrouperIdle ==
    /\ gModules = {} /\ gOwner = [p \in Params |-> 1] /\ gExprs = {}
    /\ gState = NoState /\ gOut = NotCalled

\* a Builder and a StreamToLogger as constructed (parser.py 22-31,
\* utils.py 19-22), with nothing to build
BuilderIdle ==
    /\ imports = [f \in 1..NumFiles |-> <<>>]
    /\ stdForm = "absolute"
    /\ file_stack = <<>> /\ block_stack = <<>> /\ src_files = <<>>
    /\ frames = <<>>
    /\ visits = [f \in 1..NumFiles |-> 0]
    /\ bstatus = "idle"

LoggerIdle == linebuf = <<>> /\ logged = <<>> /\ written = <<>> /\ flushed = FALSE

ObjectsIdle == BuilderIdle /\ LoggerIdle

CallIdle == callArgs = <<>> /\ callRet = <<>> /\ ObjectsIdle

Init ==
    /\ CallIdle
    /\ GrouperIdle
    /\ pc = "explicit"
    /\ tree \in InitialTrees
    /\ tree0 = tree
    /\ explicitMods \in SUBSET TreeModules(tree)
    /\ partOf = [m \in Modules |-> 0]
    /\ candidates = <<>>
    /\ tree_backup = {}
    /\ err = NoErr
    /\ rounds = 0 /\ batches = 0
    /\ firstSingles = {} /\ groups = {} /\ heads = {} /\ everHead = {}
    /\ attachCount = [m \in Modules |-> 0]
    /\ verified = {}
    /\ lookups = 0 /\ reused = {}
    /\ asked = <<>>

\* the modules among ms that carry a part already
Picked(ms) == {m \in ms : HasPart(partOf, m)}

\* get_candidates is reached unless solver.update_superset_cache raised
Looked(o, t) ==
    IF o.cause = "Contradiction"
    THEN UNCHANGED <<lookups, reused>>
    ELSE lookups' = lookups + 1 /\ reused' = reused \cup Picked(TreeModules(t))

\* (mutant) the explicit modules of every depth
ExplicitModulesAnyDepth == TreeModules(tree) \cap explicitMods

\* lines 355-360
ExplicitModules == TreeKeys(tree) \cap explicitMods

\* (mutant) the tree is not pruned after the explicit pass
ExplicitPassNoPrune ==
    /\ pc = "explicit"
    /\ partOf' = Attach(partOf, FirstOf(ExplicitParts(ExplicitModules)))
    /\ attachCount' = Counted(attachCount, ExplicitModules)
    /\ tree' = tree
    /\ tree_backup' = TreeKeys(tree')
    /\ pc' = "first_refresh"
    /\ reused' = reused \cup Picked(ExplicitModules)
    /\ UNCHANGED lookups
    /\ UNCHANGED <<gvars, cvars, asked, tree0, explicitMods, candidates, err, rounds, batches,
                   firstSingles, groups, heads, everHead, verified>>

\* lines 355-369: the explicit parts are looked up and attached, the tree
\* pruned and tree_backup taken
ExplicitPass ==
    /\ pc = "explicit"
    /\ partOf' = Attach(partOf, FirstOf(ExplicitParts(ExplicitModules)))
    /\ attachCount' = Counted(attachCount, ExplicitModules)
    /\ tree' = IF ExplicitModules # {}
               THEN UpdatePickTree(tree, partOf')[1] ELSE tree
    /\ tree_backup' = TreeKeys(tree')
    /\ pc' = "first_refresh"
    /\ reused' = reused \cup Picked(ExplicitModules)
    /\ UNCHANGED lookups
    /\ UNCHANGED <<gvars, cvars, asked, tree0, explicitMods, candidates, err, rounds, batches,
                   firstSingles, groups, heads, everHead, verified>>

\* lines 362-365: attach_single_no_check raises on one of the explicit
\* modules; the ones before it stay attached and nothing catches it
ExplicitAttachRaises ==
    /\ pc = "explicit"
    /\ \E done \in SUBSET ExplicitModules :
        /\ done # ExplicitModules
        /\ partOf' = Attach(partOf, FirstOf(ExplicitParts(done)))
        /\ attachCount' = Counted(attachCount, done)
    /\ err' = Exc("NotCompatibleException", {}, "explicit", "attach")
    /\ pc' = "error"
    /\ reused' = reused \cup Picked(ExplicitModules)
    /\ UNCHANGED lookups
    /\ UNCHANGED <<gvars, cvars, asked, tree, tree0, explicitMods, candidates, tree_backup,
                   rounds, batches, firstSingles, groups, heads,
                   everHead, verified>>

\* line 413: candidates = _get_candidates(tree)
FirstRefresh ==
    /\ pc = "first_refresh"
    /\ \E o \in GetCandidates(tree) :
        /\ Looked(o, tree)
        /\ o.kind = "ok"
        /\ candidates' = o.cands
        /\ firstSingles' = {m \in DOMAIN o.cands : Len(o.cands[m]) = 1}
    /\ pc' = "singles"
    /\ UNCHANGED <<gvars, cvars, asked, tree, tree0, explicitMods, partOf, tree_backup, err,
                   rounds, batches, groups, heads, everHead, attachCount, verified>>

FirstRefreshRaises ==
    /\ pc = "first_refresh"
    /\ \E o \in GetCandidates(tree) :
        /\ Looked(o, tree)
        /\ o.kind # "ok"
        /\ err' = Exc(o.kind, o.modules, "first_refresh", o.cause)
    /\ pc' = "error"
    /\ UNCHANGED <<gvars, cvars, asked, tree, tree0, explicitMods, partOf, candidates,
                   tree_backup, rounds, batches, firstSingles, groups, heads,
                   everHead, attachCount, verified>>

\* lines 419-423
SinglePartModules == {m \in DOMAIN candidates : Len(candidates[m]) = 1}

\* lines 424-443: check_and_attach_candidates attaches every single-candidate
\* module, then the tree is pruned
SingletonBatch ==
    /\ pc = "singles"
    /\ SinglePartModules # {}
    /\ partOf' = Attach(partOf, [m \in SinglePartModules |-> candidates[m][1]])
    /\ attachCount' = Counted(attachCount, SinglePartModules)
    /\ batches' = batches + 1
    /\ tree' = UpdatePickTree(tree, partOf')[1]
    /\ pc' = "second_refresh"
    /\ reused' = reused \cup Picked(SinglePartModules)
    /\ UNCHANGED lookups
    /\ UNCHANGED <<gvars, cvars, asked, tree0, explicitMods, candidates, tree_backup, err,
                   rounds, firstSingles, groups, heads, everHead,
                   verified>>

\* (mutant) the error names the modules not yet attached only
SingletonBatchRaisesRest ==
    /\ pc = "singles"
    /\ SinglePartModules # {}
    /\ \E done \in SUBSET SinglePartModules,
          cause \in {"Contradiction", "NotCompatibleException",
                     "NotDeducibleException"} :
        /\ done # SinglePartModules
        /\ partOf' = Attach(partOf, [m \in done |-> candidates[m][1]])
        /\ attachCount' = Counted(attachCount, done)
        /\ err' = Exc("PickError", SinglePartModules \ done, "singles", cause)
    /\ batches' = batches + 1
    /\ pc' = "error"
    /\ reused' = reused \cup Picked(SinglePartModules)
    /\ UNCHANGED lookups
    /\ UNCHANGED <<gvars, cvars, asked, tree, tree0, explicitMods, candidates, tree_backup,
                   rounds, firstSingles, groups, heads, everHead,
                   verified>>

\* lines 426-440: check_and_attach_candidates raises (Contradiction,
\* NotCompatibleException or NotDeducibleException); what it attached before
\* stays attached
SingletonBatchRaises ==
    /\ pc = "singles"
    /\ SinglePartModules # {}
    /\ \E done \in SUBSET SinglePartModules,
          cause \in {"Contradiction", "NotCompatibleException",
                     "NotDeducibleException"} :
        /\ done # SinglePartModules
        /\ partOf' = Attach(partOf, [m \in done |-> candidates[m][1]])
        /\ attachCount' = Counted(attachCount, done)
        /\ err' = Exc("PickError", SinglePartModules, "singles", cause)
    /\ batches' = batches + 1
    /\ pc' = "error"
    /\ reused' = reused \cup Picked(SinglePartModules)
    /\ UNCHANGED lookups
    /\ UNCHANGED <<gvars, cvars, asked, tree, tree0, explicitMods, candidates, tree_backup,
                   rounds, firstSingles, groups, heads, everHead,
                   verified>>

\* line 424: no single-candidate module
NoSingles ==
    /\ pc = "singles"
    /\ SinglePartModules = {}
    /\ pc' = "loop"
    /\ UNCHANGED <<gvars, cvars, tree, tree0, explicitMods, partOf, candidates,
                   tree_backup, err, hvars>>

\* line 444: candidates = _get_candidates(tree)
SecondRefresh ==
    /\ pc = "second_refresh"
    /\ \E o \in GetCandidates(tree) :
        /\ Looked(o, tree)
        /\ o.kind = "ok"
        /\ candidates' = o.cands
    /\ pc' = "loop"
    /\ UNCHANGED <<gvars, cvars, asked, tree, tree0, explicitMods, partOf, tree_backup, err,
                   rounds, batches, firstSingles, groups, heads, everHead,
                   attachCount, verified>>

SecondRefreshRaises ==
    /\ pc = "second_refresh"
    /\ \E o \in GetCandidates(tree) :
        /\ Looked(o, tree)
        /\ o.kind # "ok"
        /\ err' = Exc(o.kind, o.modules, "second_refresh", o.cause)
    /\ pc' = "error"
    /\ UNCHANGED <<gvars, cvars, asked, tree, tree0, explicitMods, partOf, candidates,
                   tree_backup, rounds, batches, firstSingles, groups, heads,
                   everHead, attachCount, verified>>

\* (mutant) the parts are taken from the lists obtained before the round
SlowRoundFromOld ==
    /\ pc = "loop"
    /\ DOMAIN candidates # {}
    /\ rounds < MaxRounds
    /\ \E r \in GroupOutcomes(DOMAIN candidates) :
        /\ r.status = "returned"
        /\ \E hs \in GroupHeads(SelectedGroups(r.groups)) :
            \E o \in GetCandidates(ListToHackTree(hs)) :
                /\ o.kind = "ok"
                /\ partOf' = Attach(partOf, [m \in hs |-> candidates[m][1]])
                /\ attachCount' = Counted(attachCount, hs)
                /\ tree' = UpdatePickTree(tree, partOf')[1]
                /\ candidates' = Remaining(candidates, hs)
                /\ Looked(o, ListToHackTree(hs))
                /\ asked' = o.cands
                /\ groups' = r.groups
                /\ heads' = hs
                /\ everHead' = everHead \cup hs
    /\ rounds' = rounds + 1
    /\ UNCHANGED <<gvars, cvars, pc, tree0, explicitMods, tree_backup, err, batches,
                   firstSingles, verified>>

\* lines 452-477: one iteration of the slow-pick loop
SlowRound ==
    /\ pc = "loop"
    /\ DOMAIN candidates # {}
    /\ rounds < MaxRounds
    /\ \E r \in GroupOutcomes(DOMAIN candidates) :
        /\ r.status = "returned"
        /\ \E hs \in GroupHeads(SelectedGroups(r.groups)) :
            \E o \in GetCandidates(ListToHackTree(hs)) :
                /\ o.kind = "ok"
                /\ partOf' = Attach(partOf, FirstOf(o.cands))
                /\ attachCount' = Counted(attachCount, hs)
                /\ tree' = UpdatePickTree(tree, partOf')[1]
                /\ candidates' = Remaining(candidates, hs)
                /\ Looked(o, ListToHackTree(hs))
                /\ asked' = o.cands
                /\ groups' = r.groups
                /\ heads' = hs
                /\ everHead' = everHead \cup hs
    /\ rounds' = rounds + 1
    /\ UNCHANGED <<gvars, cvars, pc, tree0, explicitMods, tree_backup, err, batches,
                   firstSingles, verified>>

\* line 453: find_independent_groups raises ContradictionByLiteral (line 292);
\* the call is outside the try of line 462
SlowRoundGroupingRaises ==
    /\ pc = "loop"
    /\ DOMAIN candidates # {}
    /\ rounds < MaxRounds
    /\ \E r \in GroupOutcomes(DOMAIN candidates) :
        /\ r.status # "returned"
        /\ err' = Exc(r.status, {}, "slow", "find_independent_groups")
    /\ rounds' = rounds + 1
    /\ pc' = "error"
    /\ UNCHANGED <<lookups, reused>>
    /\ UNCHANGED <<gvars, cvars, asked, tree, tree0, explicitMods, partOf, candidates,
                   tree_backup, batches, firstSingles, groups, heads,
                   everHead, attachCount, verified>>

\* lines 462-470: _get_single_candidate raises; a PickError is no
\* Contradiction and passes the except clause
SlowRoundRefreshRaises ==
    /\ pc = "loop"
    /\ DOMAIN candidates # {}
    /\ rounds < MaxRounds
    /\ \E r \in GroupOutcomes(DOMAIN candidates) :
        /\ r.status = "returned"
        /\ \E hs \in GroupHeads(SelectedGroups(r.groups)) :
            \E o \in GetCandidates(ListToHackTree(hs)) :
                /\ o.kind # "ok"
                /\ err' = Exc(o.kind, o.modules, "slow", o.cause)
                /\ Looked(o, ListToHackTree(hs))
                /\ asked' = o.cands
                /\ groups' = r.groups
                /\ heads' = hs
                /\ everHead' = everHead \cup hs
    /\ rounds' = rounds + 1
    /\ pc' = "error"
    /\ UNCHANGED <<gvars, cvars, tree, tree0, explicitMods, partOf, candidates,
                   tree_backup, batches, firstSingles, attachCount, verified>>

\* lines 471-472: attach_single_no_check raises on one of the heads
SlowRoundAttachRaises ==
    /\ pc = "loop"
    /\ DOMAIN candidates # {}
    /\ rounds < MaxRounds
    /\ \E r \in GroupOutcomes(DOMAIN candidates) :
        /\ r.status = "returned"
        /\ \E hs \in GroupHeads(SelectedGroups(r.groups)) :
            \E o \in GetCandidates(ListToHackTree(hs)), done \in SUBSET hs :
                /\ o.kind = "ok"
                /\ done # hs
                /\ partOf' = Attach(partOf, [m \in done |-> o.cands[m][1]])
                /\ attachCount' = Counted(attachCount, done)
                /\ Looked(o, ListToHackTree(hs))
                /\ asked' = o.cands
                /\ groups' = r.groups
                /\ heads' = hs
                /\ everHead' = everHead \cup hs
    /\ err' = Exc("NotCompatibleException", {}, "slow", "attach")
    /\ rounds' = rounds + 1
    /\ pc' = "error"
    /\ UNCHANGED <<gvars, cvars, tree, tree0, explicitMods, candidates, tree_backup,
                   batches, firstSingles, verified>>

\* (mutant) the loop is left whether or not candidates remain
LoopExitAlways ==
    /\ pc = "loop"
    /\ pc' = "verify"
    /\ UNCHANGED <<gvars, cvars, tree, tree0, explicitMods, partOf, candidates,
                   tree_backup, err, hvars>>

\* lines 450-452: no candidates (left)
LoopExit ==
    /\ pc = "loop"
    /\ DOMAIN candidates = {}
    /\ pc' = "verify"
    /\ UNCHANGED <<gvars, cvars, tree, tree0, explicitMods, partOf, candidates,
                   tree_backup, err, hvars>>

\* (mutant) after the final solver call the loop is entered again
VerifyThenLoop ==
    /\ pc = "verify"
    /\ verified' = tree_backup
    /\ pc' = "loop"
    /\ UNCHANGED <<lookups, reused>>
    /\ UNCHANGED <<gvars, cvars, asked, tree, tree0, explicitMods, partOf, candidates,
                   tree_backup, err, rounds, batches, firstSingles,
                   groups, heads, everHead, attachCount>>

\* lines 486-487: solver.update_superset_cache(*tree_backup) passes
Verify ==
    /\ pc = "verify"
    /\ verified' = tree_backup
    /\ pc' = "done"
    /\ UNCHANGED <<lookups, reused>>
    /\ UNCHANGED <<gvars, cvars, asked, tree, tree0, explicitMods, partOf, candidates,
                   tree_backup, err, rounds, batches, firstSingles,
                   groups, heads, everHead, attachCount>>

\* (mutant) the final contradiction raised as a plain PickError
VerifyRaisesPickError ==
    /\ pc = "verify"
    /\ verified' = tree_backup
    /\ err' = Exc("PickError", tree_backup, "verify", "Contradiction")
    /\ pc' = "error"
    /\ UNCHANGED <<lookups, reused>>
    /\ UNCHANGED <<gvars, cvars, asked, tree, tree0, explicitMods, partOf, candidates,
                   tree_backup, rounds, batches, firstSingles,
                   groups, heads, everHead, attachCount>>

\* lines 488-489
VerifyRaises ==
    /\ pc = "verify"
    /\ verified' = tree_backup
    /\ err' = Exc("PickVerificationError", tree_backup, "verify", "Contradiction")
    /\ pc' = "error"
    /\ UNCHANGED <<lookups, reused>>
    /\ UNCHANGED <<gvars, cvars, asked, tree, tree0, explicitMods, partOf, candidates,
                   tree_backup, rounds, batches, firstSingles,
                   groups, heads, everHead, attachCount>>

Next ==
    \/ ExplicitPass \/ ExplicitAttachRaises
    \/ FirstRefresh \/ FirstRefreshRaises
    \/ SingletonBatch \/ SingletonBatchRaises \/ NoSingles
    \/ SecondRefresh \/ SecondRefreshRaises
    \/ SlowRound \/ SlowRoundGroupingRaises \/ SlowRoundRefreshRaises
    \/ SlowRoundAttachRaises
    \/ LoopExit \/ Verify \/ VerifyRaises

Spec == Init /\ [][Next]_vars

\* ----------------------------------------------------- SpecGroups
InitGroups ==
    /\ gModules \in {1..k : k \in 0..NumModules}
    /\ gOwner \in ParamOwners
    /\ gState \in {NoState} \cup {<<g>> : g \in GraphMaps}
    /\ gExprs \in ExprSets
    /\ HasState(gState) => Cardinality(gExprs) <= 1
    /\ gOut = NotCalled
    /\ DriverIdle
    /\ CallIdle

GroupWalk ==
    /\ gOut = NotCalled
    /\ ~HasState(gState)
    /\ \E lits \in DirectLits(gExprs) :
           gOut' = WalkGroups(gModules, gOwner, gExprs, lits)
    /\ UNCHANGED <<gModules, gOwner, gExprs, gState, dvars, hvars, cvars>>

GroupFast ==
    /\ gOut = NotCalled
    /\ HasState(gState)
    /\ gOut' = FastGroups(gModules, gOwner, gState[1])
    /\ UNCHANGED <<gModules, gOwner, gExprs, gState, dvars, hvars, cvars>>

NextGroups == GroupWalk \/ GroupFast

SpecGroups == InitGroups /\ [][NextGroups]_vars

\* ------------------------------------------------ claims on the grouper
IsPartitionOf(gs, S) ==
    /\ UNION gs = S
    /\ \A g \in gs : g # {}
    /\ \A g, h \in gs : g # h => g \cap h = {}

WalkReturned == gOut.status = "returned" /\ ~HasState(gState)
FastReturned == gOut.status = "returned" /\ HasState(gState)

\* C1: whenever find_independent_groups returns, on either path, the groups
\* are a partition of the input modules: every input module is in exactly one
\* group and no group holds a module outside the input.
C1_PartitionBothPaths ==
    gOut.status = "returned" => IsPartitionOf(gOut.groups, gModules)

\* Parameters reached from p over constrained Is expressions between two
\* parameters (the enforced equality constraints).
EqualityLinks ==
    {e.ps : e \in {x \in gExprs : x.kind = "Is" /\ x.constrained /\ x.lit = 0}}

RECURSIVE Reach(_)
Reach(S) ==
    LET next == S \cup UNION {l \in EqualityLinks : l \cap S # {}}
    IN  IF next = S THEN S ELSE Reach(next)

AliasedToLiteral(p) ==
    \E e \in gExprs : e.kind = "Is" /\ e.constrained /\ e.lit # 0 /\ p \in e.ps

\* m1 and m2 are joined by a chain of enforced equality constraints
Joined(m1, m2) ==
    \E p1, p2 \in Params :
        gOwner[p1] = m1 /\ gOwner[p2] = m2 /\ p2 \in Reach({p1})

\* ... none of whose parameters is aliased to a literal
JoinedFree(m1, m2) ==
    \E p1, p2 \in Params :
        /\ gOwner[p1] = m1 /\ gOwner[p2] = m2 /\ p2 \in Reach({p1})
        /\ \A r \in Reach({p1}) : ~AliasedToLiteral(r)

SameGroup(m1, m2) == \E g \in gOut.groups : m1 \in g /\ m2 \in g

\* C2 as claimed, on the constraint-walking path: two input modules joined by
\* a chain of enforced equality constraints are in the same group, literal
\* aliases on the chain or not.
C2_ChainSameGroupOriginal ==
    WalkReturned =>
        \A m1, m2 \in gModules : Joined(m1, m2) => SameGroup(m1, m2)

\* C2 amended: on the constraint-walking path, two input modules joined by a
\* chain of enforced equality constraints none of whose parameters is aliased
\* to a literal are in the same group.
C2_ChainSameGroup ==
    WalkReturned =>
        \A m1, m2 \in gModules : JoinedFree(m1, m2) => SameGroup(m1, m2)

\* two different input modules joined only through a parameter of a third
\* module, not by one constraint between their own parameters
C2_Witness ==
    /\ WalkReturned
    /\ \E m1, m2 \in gModules :
        /\ m1 # m2 /\ JoinedFree(m1, m2) /\ SameGroup(m1, m2)
        /\ \A l \in EqualityLinks : {gOwner[p] : p \in l} # {m1, m2}

\* ---------------------- find_independent_groups with and without state
\* The reusable state of a solver that has seen the constraints `exprs`: the
\* graph of a parameter is the class the walking path puts it in (ParamEqs),
\* named by its least parameter; a parameter outside every class has a graph
\* of its own.
StateOf(exprs, lits) ==
    [p \in Params |->
        LET cls == {c \in EqGet(ParamEqs(exprs, lits)) : p \in c}
        IN  IF cls = {} THEN p
            ELSE CHOOSE q \in UNION cls : \A r \in UNION cls : q <= r]

InitBoth ==
    /\ gModules \in {1..k : k \in 0..NumModules}
    /\ gOwner \in ParamOwners
    /\ gExprs \in ExprSets
    /\ \E lits \in DirectLits(gExprs) : gState = <<StateOf(gExprs, lits)>>
    /\ gOut = NotCalled
    /\ DriverIdle
    /\ CallIdle

\* the call with a solver that has no reusable state
BothWalk ==
    /\ Len(callRet) = 0
    /\ \E lits \in DirectLits(gExprs) :
        /\ gState = <<StateOf(gExprs, lits)>>
        /\ callRet' = <<WalkGroups(gModules, gOwner, gExprs, lits)>>
    /\ UNCHANGED <<gvars, dvars, hvars, callArgs, ovars>>

\* the call with the solver's reusable state
BothFast ==
    /\ Len(callRet) = 1
    /\ callRet' = Append(callRet, FastGroups(gModules, gOwner, gState[1]))
    /\ UNCHANGED <<gvars, dvars, hvars, callArgs, ovars>>

NextBoth == BothWalk \/ BothFast

SpecBoth == InitBoth /\ [][NextBoth]_vars

\* ------------------------------- one round on a given constraint system
\* An enforced equality one end of which an enforced Is aliases to a literal:
\* line 304 takes both parameters out of the grouping.
LiteralPins ==
    {{IsPair(TRUE, pq[1], pq[2]), IsLit(TRUE, pq[1], l)} : pq \in ParamPairs, l \in Lits}

\* The slow pass entered with every module of the tree a candidate of
\* MaxCands parts (no explicit module, no single-candidate module), over the
\* constraint system and solver state held in gOwner, gExprs and gState: the
\* systems of the rounds of Spec, and the literal pins.
InitRound ==
    /\ CallIdle
    /\ gModules \in {1..k : k \in 1..NumModules}
    /\ gOwner \in ParamOwners
    /\ \/ gState = NoState /\ gExprs \in RoundExprSets \cup LiteralPins
       \/ gState \in {<<g>> : g \in GraphMaps} /\ gExprs = {}
    /\ gOut = NotCalled
    /\ pc = "loop"
    /\ tree = ListToHackTree(gModules) /\ tree0 = tree
    /\ explicitMods = {}
    /\ partOf = [m \in Modules |-> 0]
    /\ candidates = [m \in gModules |-> [i \in 1..MaxCands |-> MaxCands + 1 - i]]
    /\ tree_backup = gModules
    /\ err = NoErr
    /\ rounds = 0 /\ batches = 0
    /\ firstSingles = {} /\ groups = {} /\ heads = {} /\ everHead = {}
    /\ attachCount = [m \in Modules |-> 0]
    /\ verified = {}
    /\ lookups = 1 /\ reused = {}
    /\ asked = <<>>

\* line 453 on the system of the round
RoundGroups(lits) ==
    FindIndependentGroups(DOMAIN candidates, gOwner, gExprs, lits, gState)

\* lines 452-477 on the system of the round: the first iteration
RoundOn ==
    /\ pc = "loop" /\ rounds = 0
    /\ DOMAIN candidates # {}
    /\ \E lits \in DirectLits(gExprs) :
        /\ RoundGroups(lits).status = "returned"
        /\ gOut' = RoundGroups(lits)
        /\ \E hs \in GroupHeads(SelectedGroups(RoundGroups(lits).groups)) :
            \E o \in GetCandidates(ListToHackTree(hs)) :
                /\ o.kind = "ok"
                /\ partOf' = Attach(partOf, FirstOf(o.cands))
                /\ attachCount' = Counted(attachCount, hs)
                /\ tree' = UpdatePickTree(tree, partOf')[1]
                /\ candidates' = Remaining(candidates, hs)
                /\ Looked(o, ListToHackTree(hs))
                /\ asked' = o.cands
                /\ groups' = RoundGroups(lits).groups
                /\ heads' = hs
                /\ everHead' = everHead \cup hs
    /\ rounds' = rounds + 1
    /\ UNCHANGED <<gModules, gOwner, gExprs, gState, cvars, pc, tree0,
                   explicitMods, tree_backup, err, batches, firstSingles, verified>>

\* line 453 raises ContradictionByLiteral (line 292)
RoundOnGroupingRaises ==
    /\ pc = "loop" /\ rounds = 0
    /\ DOMAIN candidates # {}
    /\ \E lits \in DirectLits(gExprs) :
        /\ RoundGroups(lits).status # "returned"
        /\ gOut' = RoundGroups(lits)
        /\ err' = Exc(RoundGroups(lits).status, {}, "slow", "find_independent_groups")
    /\ rounds' = rounds + 1
    /\ pc' = "error"
    /\ UNCHANGED <<gModules, gOwner, gExprs, gState, cvars, tree, tree0,
                   explicitMods, partOf, candidates, tree_backup, batches,
                   firstSingles, groups, heads, everHead, attachCount,
                   verified, lookups, reused, asked>>

\* lines 462-472: _get_single_candidate or attach_single_no_check raises
RoundOnRaises ==
    /\ pc = "loop" /\ rounds = 0
    /\ DOMAIN candidates # {}
    /\ \E lits \in DirectLits(gExprs) :
        /\ RoundGroups(lits).status = "returned"
        /\ gOut' = RoundGroups(lits)
        /\ \E hs \in GroupHeads(SelectedGroups(RoundGroups(lits).groups)) :
            \E o \in GetCandidates(ListToHackTree(hs)), done \in SUBSET hs :
                /\ IF o.kind = "ok"
                   THEN /\ done # hs
                        /\ partOf' = Attach(partOf, [m \in done |-> o.cands[m][1]])
                        /\ attachCount' = Counted(attachCount, done)
                        /\ err' = Exc("NotCompatibleException", {}, "slow", "attach")
                   ELSE /\ done = {}
                        /\ UNCHANGED <<partOf, attachCount>>
                        /\ err' = Exc(o.kind, o.modules, "slow", o.cause)
                /\ Looked(o, ListToHackTree(hs))
                /\ asked' = o.cands
                /\ groups' = RoundGroups(lits).groups
                /\ heads' = hs
                /\ everHead' = everHead \cup hs
    /\ rounds' = rounds + 1
    /\ pc' = "error"
    /\ UNCHANGED <<gModules, gOwner, gExprs, gState, cvars, tree, tree0,
                   explicitMods, candidates, tree_backup, batches,
                   firstSingles, verified>>

NextRound == RoundOn \/ RoundOnGroupingRaises \/ RoundOnRaises

SpecRound == InitRound /\ [][NextRound]_vars

\* ------------------------------------------------ parser: Builder.build
Files == 1..NumFiles

\* the interpreter's recursion limit, above the longest chain of imports
\* that has no cycle
MaxDepth == NumFiles + 1

\* the import statements of a file, as project.resolve_import resolves them
ImportLists == UNION {[1..n -> Files] : n \in 0..MaxImports}

\* path.resolve().absolute() (line 100) and the abs_path of resolve_import
AbsPath(f) == <<"abs", f>>

\* Project.standardise_import_path and the std_path of resolve_import: the
\* project either leaves an absolute path as it is or gives it another form
\* (relative to the project)
StdPath(f) == IF stdForm = "absolute" THEN AbsPath(f) ELSE <<"std", f>>

\* str(std_path)
Str(path) == <<"str", path>>

\* x in a list
On(list, x) == \E i \in DOMAIN list : list[i] = x

Pop(list) == SubSeq(list, 1, Len(list) - 1)

\* a visit in progress: the file, the statement it is at, and the depth of
\* the two stacks when working_file was entered
Frame(f) ==
    [file |-> f, stmt |-> 1, files |-> Len(file_stack), blocks |-> Len(block_stack)]

Top == frames[Len(frames)]

InitBuild ==
    /\ callArgs = <<>> /\ callRet = <<>>
    /\ GrouperIdle /\ DriverIdle /\ LoggerIdle
    /\ imports \in [Files -> ImportLists]
    /\ stdForm \in {"absolute", "relative"}
    /\ file_stack = <<>> /\ block_stack = <<>> /\ src_files = <<>>
    /\ frames = <<>>
    /\ visits = [f \in Files |-> 0]
    /\ bstatus = "idle"

\* working_file up to its yield (lines 50-53), working_block up to its yield
\* (lines 44-45), then the visit of the file's tree begins
EnterFile(f) ==
    /\ file_stack' = Append(file_stack, AbsPath(f))
    /\ block_stack' = Append(block_stack, Str(StdPath(f)))
    /\ visits' = [visits EXCEPT ![f] = @ + 1]

\* build (lines 89-108) up to the visit of the root file, file 1
Build ==
    /\ bstatus = "idle"
    /\ EnterFile(1)
    /\ frames' = <<Frame(1)>>
    /\ bstatus' = "building"
    /\ UNCHANGED <<gvars, dvars, hvars, callArgs, callRet, lvars, imports, stdForm,
                   src_files>>

AtImport == bstatus = "building" /\ Top.stmt <= Len(imports[Top.file])

Target == imports[Top.file][Top.stmt]

\* lines 121-122: the import is found on the file stack.  The exception
\* leaves through the context managers, which have no finally: the stacks
\* stay as they are.
ImportCircular ==
    /\ AtImport
    /\ On(file_stack, StdPath(Target))
    /\ bstatus' = "RuntimeError"
    /\ UNCHANGED <<gvars, dvars, hvars, callArgs, callRet, lvars, imports, stdForm,
                   file_stack, block_stack, src_files, frames, visits>>

\* lines 124-130: the file is not among model.src_files and is visited
ImportVisit ==
    /\ AtImport
    /\ ~On(file_stack, StdPath(Target))
    /\ ~On(src_files, StdPath(Target))
    /\ Len(frames) < MaxDepth
    /\ EnterFile(Target)
    /\ frames' = Append(frames, Frame(Target))
    /\ UNCHANGED <<gvars, dvars, hvars, callArgs, callRet, lvars, imports, stdForm,
                   src_files, bstatus>>

\* lines 124-130 nested beyond the recursion limit
ImportTooDeep ==
    /\ AtImport
    /\ ~On(file_stack, StdPath(Target))
    /\ ~On(src_files, StdPath(Target))
    /\ Len(frames) = MaxDepth
    /\ bstatus' = "RecursionError"
    /\ UNCHANGED <<gvars, dvars, hvars, callArgs, callRet, lvars, imports, stdForm,
                   file_stack, block_stack, src_files, frames, visits>>

\* lines 124, 132-146: the file is among model.src_files; the import is
\* linked and the statement done
ImportSeen ==
    /\ AtImport
    /\ ~On(file_stack, StdPath(Target))
    /\ On(src_files, StdPath(Target))
    /\ frames' = [frames EXCEPT ![Len(frames)].stmt = @ + 1]
    /\ UNCHANGED <<gvars, dvars, hvars, callArgs, callRet, lvars, imports, stdForm,
                   file_stack, block_stack, src_files, visits, bstatus>>

\* the visit of a file's tree is over: working_block after its yield (line
\* 46), working_file after its yield (lines 54-55); then the import
\* statement that caused the visit is done (lines 132-146), or build returns
FileDone ==
    /\ bstatus = "building"
    /\ Top.stmt > Len(imports[Top.file])
    /\ block_stack' = Pop(block_stack)
    /\ file_stack' = Pop(file_stack)
    /\ src_files' = Append(src_files, StdPath(Top.file))
    /\ frames' = IF Len(frames) = 1 THEN <<>>
                 ELSE [Pop(frames) EXCEPT ![Len(frames) - 1].stmt = @ + 1]
    /\ bstatus' = IF Len(frames) = 1 THEN "done" ELSE "building"
    /\ UNCHANGED <<gvars, dvars, hvars, callArgs, callRet, lvars, imports, stdForm,
                   visits>>

NextBuild ==
    \/ Build \/ ImportCircular \/ ImportVisit \/ ImportTooDeep \/ ImportSeen
    \/ FileDone

SpecBuild == InitBuild /\ [][NextBuild]_vars

\* ------------------------------------------------ utils: StreamToLogger
\* Text is a sequence of characters.
Chars == {"a", "b", " ", "\n", "\r"}
Whitespace == {" ", "\n", "\r"}

Texts(n) == UNION {[1..k -> Chars] : k \in 0..n}

\* str.splitlines(True): the text cut after every line boundary, the
\* boundary kept.  "\n", "\r" and "\r\n" are boundaries.
BreakAt(s, i) ==
    \/ s[i] = "\n"
    \/ s[i] = "\r" /\ (i = Len(s) \/ s[i + 1] # "\n")

FirstBreak(s) ==
    IF \E i \in 1..Len(s) : BreakAt(s, i)
    THEN CHOOSE i \in 1..Len(s) : BreakAt(s, i) /\ \A j \in 1..(i - 1) : ~BreakAt(s, j)
    ELSE Len(s)

RECURSIVE SplitLines(_)
SplitLines(s) ==
    IF s = <<>> THEN <<>>
    ELSE <<SubSeq(s, 1, FirstBreak(s))>>
         \o SplitLines(SubSeq(s, FirstBreak(s) + 1, Len(s)))

RECURSIVE RStrip(_)
\* str.rstrip()
RStrip(s) ==
    IF s # <<>> /\ s[Len(s)] \in Whitespace THEN RStrip(Pop(s)) ELSE s

RECURSIVE WriteLines(_, _, _)
\* the loop of write (lines 27-36) over the lines of temp_linebuf: a line
\* that ends in "\n" is logged, stripped; any other is added to linebuf
WriteLines(lines, buf, log) ==
    IF lines = <<>> THEN [linebuf |-> buf, logged |-> log]
    ELSE IF lines[1][Len(lines[1])] = "\n"
         THEN WriteLines(Tail(lines), buf, Append(log, RStrip(lines[1])))
         ELSE WriteLines(Tail(lines), buf \o lines[1], log)

InitLogger ==
    /\ callArgs = <<>> /\ callRet = <<>>
    /\ GrouperIdle /\ DriverIdle /\ BuilderIdle
    /\ linebuf = <<>> /\ logged = <<>> /\ written = <<>>
    /\ flushed = FALSE

\* write (lines 24-36)
Write ==
    /\ ~flushed
    /\ \E buf \in Texts(MaxBuf) :
        /\ Len(written) + Len(buf) <= MaxText
        /\ written' = written \o buf
        /\ linebuf' = WriteLines(SplitLines(linebuf \o buf), <<>>, logged).linebuf
        /\ logged' = WriteLines(SplitLines(linebuf \o buf), <<>>, logged).logged
    /\ UNCHANGED <<gvars, dvars, hvars, callArgs, callRet, bvars, flushed>>

\* flush (lines 38-41)
Flush ==
    /\ ~flushed
    /\ logged' = IF linebuf # <<>> THEN Append(logged, RStrip(linebuf)) ELSE logged
    /\ linebuf' = <<>>
    /\ flushed' = TRUE
    /\ UNCHANGED <<gvars, dvars, hvars, callArgs, callRet, bvars, written>>

NextLogger == Write \/ Flush

SpecLogger == InitLogger /\ [][NextLogger]_vars

\* ------------------------------------------ update_pick_tree on its own
PartTags == [Modules -> {0, 1}]

InitPrune ==
    /\ callArgs \in [tree : InitialTrees, part : PartTags]
    /\ callRet = <<>>
    /\ ObjectsIdle
    /\ DriverIdle
    /\ GrouperIdle

PruneResult(t, part) ==
    [tree |-> UpdatePickTree(t, part)[1], done |-> UpdatePickTree(t, part)[2]]

\* tree, done = update_pick_tree(tree)
Prune ==
    /\ Len(callRet) = 0
    /\ callRet' = <<PruneResult(callArgs.tree, callArgs.part)>>
    /\ UNCHANGED <<gvars, dvars, hvars, callArgs, ovars>>

\* ... and once more on the tree returned, nothing attached in between
PruneAgain ==
    /\ Len(callRet) = 1
    /\ callRet' = Append(callRet, PruneResult(callRet[1].tree, callArgs.part))
    /\ UNCHANGED <<gvars, dvars, hvars, callArgs, ovars>>

NextPrune == Prune \/ PruneAgain

SpecPrune == InitPrune /\ [][NextPrune]_vars

\* ------------------------------- PickErrorChildren.get_all_children
\* An error is [cls, children]; `children` (lines 95-96) is a dict, here the
\* list of its <<module, error>> items in insertion order, keys distinct.
LeafClasses == {"PickError", "PickErrorNotImplemented"}
LeafError(cls) == [cls |-> cls, children |-> <<>>]
PickErrorChildren(children) == [cls |-> "PickErrorChildren", children |-> children]
IsAggregate(e) == e.cls = "PickErrorChildren"
Keys(items) == {items[i][1] : i \in DOMAIN items}

RECURSIVE ChildrenFrom(_, _)
\* Every children dict that holds n entries, nested ones counted, up to a
\* renaming of the modules: read in the order of the items, nested ones
\* first, a module is one seen before or the next unseen one. `seen` is the
\* highest module seen so far; the result pairs each dict with the highest
\* module seen after it.
ChildrenFrom(n, seen) ==
    IF n = 0 THEN {<<<<>>, seen>>}
    ELSE UNION {
            LET m == km[2]
                k == km[1]
                hi == IF m > seen THEN m ELSE seen
                nested == {<<PickErrorChildren(c[1]), c[2]>> : c \in ChildrenFrom(k, hi)}
                values == IF k = 0
                          THEN nested \cup {<<LeafError(c), hi>> : c \in LeafClasses}
                          ELSE nested
            IN  UNION {{<<<<<<m, v[1]>>>> \o rest[1], rest[2]>> :
                          rest \in {r \in ChildrenFrom(n - 1 - k, v[2]) : m \notin Keys(r[1])}}
                       : v \in values}
            : km \in (0..(n - 1)) \X {m \in Modules : m <= seen + 1}}

\* every children dict of up to n entries
ChildrenDicts(n) == UNION {{c[1] : c \in ChildrenFrom(k, 0)} : k \in 0..n}

\* dict | dict (line 108): the right operand's entries win
DictUnion(a, b) ==
    [m \in DOMAIN a \cup DOMAIN b |-> IF m \in DOMAIN b THEN b[m] ELSE a[m]]

\* lines 105-107: the entries of this level that are no aggregates
OwnLeaves(items) ==
    [m \in {items[i][1] : i \in {j \in DOMAIN items : ~IsAggregate(items[j][2])}}
        |-> (CHOOSE it \in {items[i] : i \in DOMAIN items} : it[1] = m)[2]]

RECURSIVE GetAllChildrenShallow(_), NestedShallow(_)
\* (mutant) a nested aggregate contributes its children as they are
GetAllChildrenShallow(items) == DictUnion(OwnLeaves(items), NestedShallow(items))

NestedShallow(items) ==
    IF items = <<>> THEN <<>>
    ELSE LET v == items[Len(items)][2]
             c == v.children
             before == NestedShallow(SubSeq(items, 1, Len(items) - 1))
         IN  IF IsAggregate(v)
             THEN DictUnion(before, [m \in Keys(c) |->
                      (CHOOSE it \in {c[i] : i \in DOMAIN c} : it[1] = m)[2]])
             ELSE before

RECURSIVE GetAllChildren(_), NestedLeaves(_)
\* get_all_children (lines 103-113) of an error with these children
GetAllChildren(items) == DictUnion(OwnLeaves(items), NestedLeaves(items))

\* lines 108-113: the dict comprehension over the nested aggregates, in the
\* order of self.children.values(); a later entry replaces an earlier one
NestedLeaves(items) ==
    IF items = <<>> THEN <<>>
    ELSE LET v == items[Len(items)][2]
             before == NestedLeaves(SubSeq(items, 1, Len(items) - 1))
         IN  IF IsAggregate(v)
             THEN DictUnion(before, GetAllChildren(v.children))
             ELSE before

InitFlatten ==
    /\ callArgs \in [children : ChildrenDicts(MaxEntries)]
    /\ callRet = <<>>
    /\ ObjectsIdle
    /\ DriverIdle
    /\ GrouperIdle

\* e.get_all_children()
Flatten ==
    /\ Len(callRet) = 0
    /\ callRet' = <<GetAllChildren(callArgs.children)>>
    /\ UNCHANGED <<gvars, dvars, hvars, callArgs, ovars>>

NextFlatten == Flatten

SpecFlatten == InitFlatten /\ [][NextFlatten]_vars

\* ------------------------------------------------ pick_part_recursively
\* A design: the module hierarchy below a root (module 1) and, per module,
\* what the picker reads of it: is_pickable, has_part_picked, has_footprint,
\* and whether it is a F.Footprint.
Kinds ==
    {[pickable |-> p, part |-> h, footprint |-> fp, isFootprint |-> FALSE] :
        p \in BOOLEAN, h \in BOOLEAN, fp \in BOOLEAN}
    \cup {[pickable |-> FALSE, part |-> FALSE, footprint |-> FALSE,
           isFootprint |-> TRUE]}

Hierarchies ==
    {f \in ParentMaps : f[1] = 0 /\ \A m \in Modules \ {1} : f[m] # 0}

Present(f) == {m \in Modules : f[m] >= 0}

Design(f, k) == [parent |-> f, kind |-> k]

ChildrenOf(d, m) == {c \in Present(d.parent) : d.parent[c] = m}

RECURSIVE DescendantsOf(_, _)
DescendantsOf(d, m) ==
    ChildrenOf(d, m) \cup UNION {DescendantsOf(d, c) : c \in ChildrenOf(d, m)}

RECURSIVE HierarchyOf(_, _)
\* the module and the modules above it
HierarchyOf(d, m) ==
    IF d.parent[m] = 0 THEN {m} ELSE {m} \cup HierarchyOf(d, d.parent[m])

\* Tree.update over the children's trees
MergeTrees(ts) ==
    [k \in UNION {TreeKeys(t) : t \in ts} |->
        (CHOOSE t \in ts : k \in TreeKeys(t))[k]]

RECURSIVE GetPickTreeOfPicked(_, _)
\* (mutant) a module with a part is not skipped
GetPickTreeOfPicked(d, m) ==
    LET below == MergeTrees({GetPickTreeOfPicked(d, c) : c \in ChildrenOf(d, m)})
    IN  IF d.kind[m].pickable THEN [k \in {m} |-> below] ELSE below

RECURSIVE GetPickTree(_, _)
\* get_pick_tree (lines 173-193)
GetPickTree(d, m) ==
    IF d.kind[m].part THEN EmptyTree
    ELSE LET below == MergeTrees({GetPickTree(d, c) : c \in ChildrenOf(d, m)})
         IN  IF d.kind[m].pickable THEN [k \in {m} |-> below] ELSE below

\* What a call returns or raises: [exc, val].
Value(v) == [exc |-> "", val |-> v]
Raise(exc) == [exc |-> exc, val |-> FALSE]

\* try_or(func, default, catch)
TryOr(outcome, default, catch) ==
    IF outcome.exc \in catch THEN Value(default) ELSE outcome

\* m.get_parent_with_trait(trait): the nearest module of the hierarchy, m
\* included, that has the trait (a true value), or KeyErrorNotFound; the
\* lookup of is_pickable may end in KeyErrorAmbiguous instead (ambiguous)
ParentWithTrait(d, m, holders, ambiguous) ==
    IF HierarchyOf(d, m) \cap holders = {} THEN Raise("KeyErrorNotFound")
    ELSE IF m \in ambiguous THEN Raise("KeyErrorAmbiguous")
    ELSE Value(TRUE)

PartPicked(d) == {m \in Present(d.parent) : d.kind[m].part}
Pickable(d) == {m \in Present(d.parent) : d.kind[m].pickable}
Footprints(d) == {m \in Present(d.parent) : d.kind[m].isFootprint}

\* the modules whose lookup of is_pickable finds a module
WithPickerAbove(d) ==
    {m \in Present(d.parent) : HierarchyOf(d, m) \cap Pickable(d) # {}}

\* lines 223-225: no module below it other than footprints
IsLeaf(d, m) == DescendantsOf(d, m) \ Footprints(d) = {}

\* (mutant) KeyErrorNotFound of the has_part_picked lookup is not caught
PartLookupUncaught(d, m) == ParentWithTrait(d, m, PartPicked(d), {})

\* lines 229-233
PartLookup(d, m) ==
    TryOr(ParentWithTrait(d, m, PartPicked(d), {}), FALSE, {"KeyErrorNotFound"})

\* lines 235-243
PickerLookup(d, m, ambiguous) ==
    TryOr(TryOr(ParentWithTrait(d, m, Pickable(d), ambiguous), FALSE,
                {"KeyErrorNotFound"}),
          TRUE, {"KeyErrorAmbiguous"})

\* lines 222-243: the f_filter, its `and` evaluated left to right
Filter(d, m, ambiguous) ==
    IF ~(IsLeaf(d, m) /\ m \notin Footprints(d)) THEN Value(FALSE)
    ELSE IF PartLookup(d, m).exc # "" THEN PartLookup(d, m)
    ELSE IF PartLookup(d, m).val THEN Value(FALSE)
    ELSE IF PickerLookup(d, m, ambiguous).exc # "" THEN PickerLookup(d, m, ambiguous)
    ELSE Value(~PickerLookup(d, m, ambiguous).val)

Report(exc, with_fp, no_fp, warnings) ==
    [exc |-> exc, with_fp |-> with_fp, no_fp |-> no_fp, warnings |-> warnings]

\* check_missing_picks (lines 211-258) on the root
CheckMissingPicks(d, ambiguous) ==
    LET all == Present(d.parent)
        raised == {Filter(d, m, ambiguous).exc : m \in all} \ {""}
        missing == {m \in all : Filter(d, m, ambiguous).val}
        with_fp == {m \in missing : d.kind[m].footprint}
        no_fp == missing \ with_fp
    IN  IF raised # {} THEN Report(CHOOSE e \in raised : TRUE, {}, {}, <<>>)
        ELSE Report("", with_fp, no_fp,
                    (IF with_fp # {} THEN <<"with_fp">> ELSE <<>>)
                    \o (IF no_fp # {} THEN <<"no_fp">> ELSE <<>>))

InitRecursive ==
    /\ \E f \in Hierarchies : \E k \in [Present(f) -> Kinds] :
        callArgs = [design |-> Design(f, k)]
    /\ callRet = <<>>
    /\ ObjectsIdle
    /\ DriverIdle
    /\ GrouperIdle

\* line 494: pick_tree = get_pick_tree(module)
GetPickTreeStep ==
    /\ pc = "idle"
    /\ Len(callRet) = 0
    /\ callRet' = <<GetPickTree(callArgs.design, 1)>>
    /\ UNCHANGED <<gvars, dvars, hvars, callArgs, ovars>>

\* line 498: check_missing_picks(module)
CheckMissingPicksStep ==
    /\ pc = "idle"
    /\ Len(callRet) = 1
    /\ \E ambiguous \in SUBSET WithPickerAbove(callArgs.design) :
        callRet' = Append(callRet, CheckMissingPicks(callArgs.design, ambiguous))
    /\ UNCHANGED <<gvars, dvars, hvars, callArgs, ovars>>

\* lines 500-501: pick_topologically(pick_tree, solver) is entered, unless
\* check_missing_picks raised
PickTopologicallyStep ==
    /\ pc = "idle"
    /\ Len(callRet) = 2
    /\ callRet[2].exc = ""
    /\ callRet' = Append(callRet, [called |-> "pick_topologically", tree |-> callRet[1]])
    /\ UNCHANGED <<gvars, dvars, hvars, callArgs, ovars>>

NextRecursive == GetPickTreeStep \/ CheckMissingPicksStep \/ PickTopologicallyStep

SpecRecursive == InitRecursive /\ [][NextRecursive]_vars

\* the trees of both: the one get_pick_tree builds and the ones
\* pick_topologically holds
SpecTrees == (InitRecursive \/ Init) /\ [][NextRecursive \/ Next]_vars

\* ------------------------------------------------- claims on the driver
Raising == pc = "error"
Returning == pc = "done"

\* the run is past the singleton heuristic, which did not raise
PastSingles ==
    \/ pc \in {"second_refresh", "loop", "verify", "done"}
    \/ Raising /\ err.phase \in {"second_refresh", "slow", "verify"}

\* C3: every module with exactly one candidate after the first refresh is
\* attached, once, by the one call of check_and_attach_candidates and is never
\* a group head of the slow pass; when every module of the tree has exactly
\* one candidate the run reaches the final verification after one batch and
\* no slow-pass round.
C3_SingletonFastPath ==
    /\ batches <= 1
    /\ everHead \cap firstSingles = {}
    /\ PastSingles =>
        /\ firstSingles # {} => batches = 1
        /\ \A m \in firstSingles : HasPart(partOf, m) /\ attachCount[m] = 1
    /\ (pc \in {"verify", "done"} /\ tree_backup # {} /\ firstSingles = tree_backup)
        => batches = 1 /\ rounds = 0

\* a finished run with single-candidate modules and slow-pass heads
C3_Witness ==
    /\ Returning
    /\ firstSingles # {}
    /\ everHead # {}
    /\ rounds >= 1

\* C4: every iteration of the slow-pick loop leaves fewer modules in the pick
\* tree and a different candidate set than it found, so the loop ends after at
\* most as many iterations as the tree had modules.
C4_RoundsShrinkTree ==
    [][(rounds' = rounds + 1 /\ pc' = "loop") =>
          /\ Cardinality(TreeModules(tree')) < Cardinality(TreeModules(tree))
          /\ candidates' # candidates
          /\ rounds' <= Cardinality(TreeModules(tree0))]_vars

NoCandidates == Raising /\ err.cause = "no candidates"

\* the top-level modules with an explicit part, attached by the explicit pass
ExplicitAttached == TreeKeys(tree0) \cap explicitMods

RoundDone == pc = "loop" /\ rounds > 0

C7_VerifiesOriginalTree ==
    (Returning \/ (Raising /\ err.phase = "verify")) =>
        TreeKeys(tree0) \subseteq verified

\* what reaches the caller is a PickError (or subclass) naming a module
WrappedPickError ==
    /\ err.type \in {"PickError", "PickVerificationError"}
    /\ err.modules # {}

\* C8, in the equivalence-grouping phase the claim names: a failure raised
\* inside find_independent_groups reaches the caller of pick_topologically
\* only as a PickError (or subclass) naming at least one module; no raw
\* ContradictionByLiteral escapes the driver.
C8_GroupingFailureWrapped ==
    (Raising /\ err.cause = "find_independent_groups") => WrappedPickError

\* C9: a Contradiction of the final solver call is raised as
\* PickVerificationError, and nothing else is: whatever the candidate
\* refreshes, the singleton batch and the slow pass raise is of another type.
C9_VerificationError ==
    /\ (Raising /\ err.phase = "verify") => err.type = "PickVerificationError"
    /\ err.type = "PickVerificationError" => (Raising /\ err.phase = "verify")
    /\ (Raising /\ err.cause = "Contradiction" /\ err.phase # "verify")
        => err.type = "PickError"

C9_Witness ==
    /\ Raising
    /\ err.type = "PickVerificationError"
    /\ rounds >= 1
    /\ batches = 1

RECURSIVE Resolved(_)
\* every entry carries a part or has entries below it that are all resolved
Resolved(t) ==
    \A k \in TreeKeys(t) :
        HasPart(partOf, k) \/ (TreeKeys(t[k]) # {} /\ Resolved(t[k]))

\* C10: when pick_topologically returns, every module of the tree as passed
\* in carries a part, is below a module that does, or has all modules below
\* it resolved.
C10_ResolvedOnReturn == Returning => Resolved(tree0)

\* a run over a nested tree that needed the slow pass has returned
C10_Witness ==
    /\ Returning
    /\ TreeModules(tree0) # TreeKeys(tree0)
    /\ Cardinality(TreeKeys(tree0)) >= 2
    /\ rounds >= 1

\* ------------------------------------------- claims on update_pick_tree
NoneResolved(t, part) == \A m \in TreeModules(t) : ~HasPart(part, m)
AllResolved(t, part) == \A m \in TreeModules(t) : HasPart(part, m)

\* C11: update_pick_tree on a tree none of whose modules, at any depth, has
\* has_part_picked returns the tree as it was with the flag False; and
\* pruning the returned tree again, nothing attached in between, returns the
\* same tree as the first pruning.
C11_PruneUnresolved ==
    /\ (Len(callRet) >= 1 /\ NoneResolved(callArgs.tree, callArgs.part)) =>
            callRet[1] = [tree |-> callArgs.tree, done |-> FALSE]
    /\ Len(callRet) >= 2 => callRet[2].tree = callRet[1].tree

\* a nested tree without any part was pruned twice
C11_Witness ==
    /\ Len(callRet) = 2
    /\ NoneResolved(callArgs.tree, callArgs.part)
    /\ TreeKeys(callArgs.tree) # TreeModules(callArgs.tree)
    /\ Cardinality(TreeKeys(callArgs.tree)) >= 2

\* C12 as claimed: update_pick_tree on a tree all of whose modules have
\* has_part_picked, the tree without entries included, returns the empty
\* tree with the flag True.
C12_PruneResolvedOriginal ==
    (Len(callRet) >= 1 /\ AllResolved(callArgs.tree, callArgs.part)) =>
        callRet[1] = [tree |-> EmptyTree, done |-> TRUE]

\* C12 amended: on a tree with at least one entry, all of whose modules have
\* has_part_picked, update_pick_tree returns the empty tree with the flag
\* True; on the tree without entries it returns that tree with the flag
\* False.
C12_PruneResolved ==
    Len(callRet) >= 1 =>
        /\ (callArgs.tree # EmptyTree /\ AllResolved(callArgs.tree, callArgs.part))
            => callRet[1] = [tree |-> EmptyTree, done |-> TRUE]
        /\ callArgs.tree = EmptyTree
            => callRet[1] = [tree |-> EmptyTree, done |-> FALSE]

\* a nested tree with a part on every module was pruned
C12_Witness ==
    /\ Len(callRet) >= 1
    /\ AllResolved(callArgs.tree, callArgs.part)
    /\ TreeKeys(callArgs.tree) # TreeModules(callArgs.tree)
    /\ callRet[1].done

\* ------------------------------------------- claims on get_all_children
RECURSIVE LeafPairs(_)
\* every <<module, leaf error>> recorded anywhere in the nesting
LeafPairs(items) ==
    UNION {IF IsAggregate(items[i][2]) THEN LeafPairs(items[i][2].children)
           ELSE {items[i]} : i \in DOMAIN items}

Flattened == Len(callRet) = 1
OnlyLeaves == \A m \in DOMAIN callRet[1] : ~IsAggregate(callRet[1][m])

\* C13 as claimed: the mapping get_all_children returns holds no
\* PickErrorChildren, and every module recorded with a leaf error anywhere in
\* the nesting is a key of it with that error.
C13_FlattenKeepsEveryErrorOriginal ==
    Flattened =>
        /\ OnlyLeaves
        /\ \A pair \in LeafPairs(callArgs.children) :
              pair[1] \in DOMAIN callRet[1] /\ callRet[1][pair[1]] = pair[2]

\* C13 amended: the mapping holds no PickErrorChildren; its keys are exactly
\* the modules recorded with a leaf error anywhere in the nesting, each with
\* one of the leaf errors recorded for it; a module the nested aggregates of
\* this level record has the error of the last of them that records it, not
\* the one of this level.
C13_FlattenLeaves ==
    Flattened =>
        LET items == callArgs.children
            pairs == LeafPairs(items)
        IN  /\ OnlyLeaves
            /\ DOMAIN callRet[1] = {pair[1] : pair \in pairs}
            /\ \A m \in DOMAIN callRet[1] : <<m, callRet[1][m]>> \in pairs
            /\ \A i \in DOMAIN items :
                  LET sub == GetAllChildren(items[i][2].children)
                  IN  \A m \in DOMAIN sub :
                        (\A j \in DOMAIN items :
                            (j > i /\ IsAggregate(items[j][2]))
                            => m \notin DOMAIN GetAllChildren(items[j][2].children))
                        => callRet[1][m] = sub[m]

\* a module recorded with two different leaf errors, at two levels or in two
\* nested aggregates, was flattened
C13_Witness ==
    /\ Flattened
    /\ \E p1, p2 \in LeafPairs(callArgs.children) : p1[1] = p2[1] /\ p1[2] # p2[2]
    /\ \E i, j \in DOMAIN callArgs.children :
          /\ i < j
          /\ IsAggregate(callArgs.children[i][2])
          /\ IsAggregate(callArgs.children[j][2])
          /\ Keys(callArgs.children[i][2].children)
               \cap Keys(callArgs.children[j][2].children) # {}

\* ----------------------------------------- further claims on the driver
\* the solver meets a contradiction at its first call after the explicit pass
\* attached a part next to a sibling without one
ExplicitContradiction ==
    /\ Raising
    /\ err.cause = "Contradiction"
    /\ err.phase \in {"explicit", "first_refresh"}
    /\ ExplicitAttached # {}
    /\ TreeKeys(tree0) \ explicitMods # {}

\* C14: when the part of an explicit module contradicts a constraint of a
\* sibling, it is the explicit pass that raises, a PickError, and no candidate
\* list has been requested from the catalog by then.
C14_ExplicitPassRaises ==
    ExplicitContradiction =>
        /\ err.type = "PickError"
        /\ err.phase = "explicit"
        /\ lookups = 0

\* the explicit pass has run to its end
ExplicitDone ==
    /\ pc \notin {"idle", "explicit"}
    /\ ~(Raising /\ err.phase = "explicit")

\* C17 as claimed: after the explicit pass every module of the tree, at any
\* depth, that is pickable by part number or supplier id has a part (or has
\* left the tree below a module that has one).
C17_ExplicitAnyDepthOriginal ==
    ExplicitDone =>
        \A m \in explicitMods : HasPart(partOf, m) \/ m \notin TreeModules(tree)

\* C17 amended: after the explicit pass every top-level module of the tree
\* that is pickable by part number or supplier id has a part, attached once;
\* when the first candidate refresh starts no candidate list has been
\* requested and these are the only modules with a part: an explicit module
\* below the top level has none.
C17_ExplicitTopLevel ==
    /\ ExplicitDone =>
          \A m \in ExplicitAttached : HasPart(partOf, m) /\ attachCount[m] = 1
    /\ pc = "first_refresh" =>
          /\ lookups = 0
          /\ {m \in Modules : HasPart(partOf, m)} = ExplicitAttached

\* the first refresh is about to start: a top-level explicit module has its
\* part, a nested explicit module is still in the tree without one
C17_Witness ==
    /\ pc = "first_refresh"
    /\ ExplicitAttached # {}
    /\ \E m \in explicitMods \ TreeKeys(tree0) :
          m \in TreeModules(tree) /\ ~HasPart(partOf, m)

\* C19: no module is attached more than once, a part once attached stays, and
\* no module that carries a part is given to a candidate lookup or to an
\* attach call.
C19_AttachOnce ==
    /\ \A m \in Modules :
          /\ attachCount[m] <= 1
          /\ HasPart(partOf, m) <=> attachCount[m] = 1
    /\ reused = {}

\* a run has returned in which the explicit pass, the singleton batch and the
\* slow pass each attached a module
C19_Witness ==
    /\ Returning
    /\ ExplicitAttached # {}
    /\ firstSingles # {}
    /\ everHead # {}

BatchFailed == Raising /\ err.phase = "singles"

\* C20: when check_and_attach_candidates fails on the singleton batch with a
\* Contradiction, a NotCompatibleException or a NotDeducibleException, the
\* run ends there with a PickError on every single-candidate module: no
\* candidate list is requested after the first, no round and no final
\* verification takes place, no module outside the batch is attached, and
\* pick_topologically takes no further step.
C20_BatchFailureFatal ==
    BatchFailed =>
        /\ err.type = "PickError"
        /\ err.cause \in {"Contradiction", "NotCompatibleException",
                          "NotDeducibleException"}
        /\ err.modules = firstSingles /\ firstSingles # {}
        /\ lookups = 1 /\ batches = 1 /\ rounds = 0 /\ verified = {}
        /\ {m \in Modules : HasPart(partOf, m)} \subseteq ExplicitAttached \cup firstSingles
        /\ ~ENABLED Next

\* a batch of two failed as not deducible after one of them was attached
C20_Witness ==
    /\ BatchFailed
    /\ err.cause = "NotDeducibleException"
    /\ Cardinality(firstSingles) >= 2
    /\ \E m, n \in firstSingles : HasPart(partOf, m) /\ ~HasPart(partOf, n)

\* the order of the phases in the text of pick_topologically
PhaseRank(p) ==
    CASE p = "explicit" -> 1
      [] p = "first_refresh" -> 2
      [] p = "singles" -> 3
      [] p = "second_refresh" -> 4
      [] p = "loop" -> 5
      [] p = "verify" -> 6
      [] p = "done" -> 7
      [] p = "error" -> 8
      [] OTHER -> 0

\* C21: a run goes through its phases in one order: explicit attachments,
\* first candidate refresh, singleton batch, grouped rounds, one final
\* verification.  No step goes back to an earlier phase, each kind of call
\* happens in its own phase only, the final verification attaches nothing and
\* asks for no candidates, a normal return comes straight from it, and
\* nothing happens after the return.
C21_PhaseOrder ==
    [][ /\ pc \notin {"done", "error"}
        /\ PhaseRank(pc') >= PhaseRank(pc)
        /\ (pc' = pc => pc = "loop")
        /\ (attachCount' # attachCount => pc \in {"explicit", "singles", "loop"})
        /\ (pc = "explicit" /\ pc' # "error" => pc' = "first_refresh")
        /\ (batches' # batches => pc = "singles")
        /\ (rounds' # rounds => pc = "loop")
        /\ (lookups' # lookups => pc \in {"first_refresh", "second_refresh", "loop"})
        /\ (pc = "verify" =>
              /\ pc' \in {"done", "error"}
              /\ verified' = tree_backup
              /\ partOf' = partOf /\ attachCount' = attachCount
              /\ lookups' = lookups)
        /\ (verified' # verified => pc = "verify")
        /\ (pc' = "done" => pc = "verify")
      ]_vars

\* a run that attached in the explicit pass, in the singleton batch and in a
\* round has returned from its final verification
C21_Witness ==
    /\ Returning
    /\ verified # {}
    /\ \E m \in ExplicitAttached : attachCount[m] = 1
    /\ batches = 1 /\ rounds >= 1 /\ lookups >= 3
    /\ \E m \in everHead : HasPart(partOf, m)

\* the modules a step attaches a part to
AttachedNow == {m \in Modules : partOf'[m] # partOf[m]}

\* a step of the slow pass: one round
RoundStep == pc = "loop" /\ rounds' = rounds + 1

\* C22: in a round whose groups include a group of size one, every module
\* attached in the round is the member of a size-one group and belongs to no
\* larger group.
C22_SingletonGroupsFirst ==
    [][ RoundStep /\ (\E g \in groups' : Cardinality(g) = 1) =>
            \A m \in AttachedNow :
                /\ {m} \in groups'
                /\ \A g \in groups' : m \in g => Cardinality(g) = 1
      ]_vars

\* a round with a group of size one and a larger group attached the member
\* of the former and left the latter alone
C22_Witness ==
    /\ pc = "loop" /\ rounds >= 1
    /\ \E g, h \in groups :
          /\ Cardinality(g) = 1 /\ Cardinality(h) = 2
          /\ heads = g
          /\ \A m \in g : HasPart(partOf, m)
          /\ \A m \in h : ~HasPart(partOf, m) /\ m \in DOMAIN candidates

\* C24: every part a round attaches is index 0 of the list that the round's
\* own call of _get_single_candidate got for the module, a call made in that
\* round after the attachments of the rounds before; the lists held in
\* `candidates` are not where the part comes from.
C24_FreshIndexZero ==
    [][ RoundStep =>
            \A m \in AttachedNow :
                /\ lookups' = lookups + 1
                /\ m \in DOMAIN asked' /\ m \in heads'
                /\ partOf'[m] = asked'[m][1]
      ]_vars

\* a head whose list before the slow pass had two parts or more (no batch
\* was due) got the only part of the list requested in its round
C24_Witness ==
    /\ pc = "loop" /\ rounds >= 1 /\ batches = 0
    /\ firstSingles = {}
    /\ \E m \in heads :
          /\ m \in DOMAIN asked /\ asked[m] = <<1>>
          /\ partOf[m] = 1

\* ------------------------------------------------- claims on one round
\* the modules a part was attached to in the round
RoundAttached == {m \in Modules : HasPart(partOf, m)}

RoundRan == rounds = 1 /\ gOut.status = "returned"

\* m1 and m2 are in one group of the round
Grouped(m1, m2) == \E g \in groups : m1 \in g /\ m2 \in g

\* C23 as claimed, on the constraint-walking path: no two modules attached
\* in one round are in the same group, and none are joined by a chain of
\* enforced equality constraints.
C23_OnePerGroupOriginal ==
    RoundRan /\ ~HasState(gState) =>
        \A m1, m2 \in RoundAttached :
            m1 # m2 => ~Grouped(m1, m2) /\ ~Joined(m1, m2)

\* C23 amended: no two modules attached in one round are in the same group
\* of that round; on the constraint-walking path no two of them are joined
\* by a chain of enforced equality constraints none of whose parameters is
\* aliased to a literal.
C23_OnePerGroup ==
    RoundRan =>
        \A m1, m2 \in RoundAttached :
            m1 # m2 =>
                /\ ~Grouped(m1, m2)
                /\ ~HasState(gState) => ~JoinedFree(m1, m2)

\* a round whose groups include one of two modules joined by an enforced
\* equality attached one of the two and left the other a candidate
C23_Witness ==
    /\ RoundRan /\ ~HasState(gState)
    /\ \E g \in groups :
          /\ Cardinality(g) = 2
          /\ Cardinality(g \cap RoundAttached) = 1
          /\ g \ RoundAttached \subseteq DOMAIN candidates
          /\ \E m1, m2 \in g : m1 # m2 /\ JoinedFree(m1, m2)

\* ------------------------------------- claim on modules left unconstrained
\* no parameter of m is an operand of an enforced expression
Unconstrained(m) ==
    \A e \in gExprs : e.constrained => \A p \in e.ps : gOwner[p] # m

\* C25: on the constraint-walking path a module none of whose parameters is
\* an operand of an enforced expression is in a group of its own, whatever
\* unenforced expressions its parameters are in.
C25_UnconstrainedAlone ==
    WalkReturned =>
        \A m \in gModules : Unconstrained(m) => {m} \in gOut.groups

\* a module tied to another input module by an unenforced expression only is
\* alone in its group
C25_Witness ==
    /\ WalkReturned
    /\ \E m, n \in gModules :
          /\ m # n /\ Unconstrained(m)
          /\ \E e \in gExprs :
                ~e.constrained /\ {gOwner[p] : p \in e.ps} = {m, n}
          /\ {m} \in gOut.groups

\* ------------------------------------------------- claim on the parser
\* a file is being visited inside a visit of itself
VisitedInside == \E i, j \in DOMAIN frames : i < j /\ frames[i].file = frames[j].file

\* C26: an import of a file that is being visited is rejected instead of
\* visited again: no file is visited inside its own visit, no file is visited
\* twice, and the build does not run into the recursion limit.
C26_CircularImportRejected ==
    /\ ~VisitedInside
    /\ \A f \in Files : visits[f] <= 1
    /\ bstatus # "RecursionError"

\* a working_file that completes leaves both stacks at the depth they had
\* when it was entered
StacksRestored ==
    [][ (bstatus = "building" /\ Len(frames') < Len(frames)) =>
            /\ Len(file_stack') = Top.files
            /\ Len(block_stack') = Top.blocks
      ]_vars

\* ----------------------------------------- claim on StreamToLogger
RECURSIVE Concat(_)
Concat(ss) == IF ss = <<>> THEN <<>> ELSE ss[1] \o Concat(Tail(ss))

\* the characters of a text that rstrip cannot take away
Ink(s) == SelectSeq(s, LAMBDA c : c \notin Whitespace)

IsPrefix(s, t) == Len(s) <= Len(t) /\ s = SubSeq(t, 1, Len(s))

\* C27: the logger receives the written text in the order it was written:
\* what has been logged so far is, blanks aside, the beginning of what has
\* been written; nothing is logged twice or after text written later; and
\* after flush everything written has been logged and the buffer is empty.
C27_LoggedInOrder ==
    /\ IsPrefix(Ink(Concat(logged)), Ink(written))
    /\ Ink(Concat(logged)) \o Ink(linebuf) = Ink(written)
    /\ flushed => linebuf = <<>> /\ Ink(Concat(logged)) = Ink(written)

\* ---------------------------- claim on the two paths of the grouper
\* C15: find_independent_groups returns the same groups with and without the
\* solver's reusable state.
C15_SamePartition ==
    Len(callRet) = 2 => callRet[2] = callRet[1]

\* ------------------------------------------ claim on check_missing_picks
\* the modules no picker will ever reach: most special leaves that are no
\* footprint, with no part and no picker on them or above them
MissingCoverage(d) ==
    {m \in Present(d.parent) :
        /\ \A c \in DescendantsOf(d, m) : d.kind[c].isFootprint
        /\ ~d.kind[m].isFootprint
        /\ \A a \in HierarchyOf(d, m) : ~d.kind[a].part /\ ~d.kind[a].pickable}

Scanned == Len(callRet) >= 2

RECURSIVE Above(_, _, _)
\* the modules a tree holds above m
Above(t, m, path) ==
    UNION {IF k = m THEN path ELSE Above(t[k], m, path \cup {k}) : k \in TreeKeys(t)}

\* C18: a module is in the tree get_pick_tree returns, and in the tree
\* pick_topologically holds after each update_pick_tree, if and only if it is
\* pickable, has no part, and no module above it has a part.
C18_PickTreeInvariant ==
    /\ (pc = "idle" /\ Len(callRet) >= 1) =>
          LET d == callArgs.design
          IN  \A m \in Present(d.parent) :
                m \in TreeModules(callRet[1]) <=>
                    /\ d.kind[m].pickable
                    /\ \A a \in HierarchyOf(d, m) : ~d.kind[a].part
    /\ pc \in {"first_refresh", "singles", "second_refresh", "loop", "verify", "done"} =>
          \A m \in TreeModules(tree0) :
                m \in TreeModules(tree) <=>
                    /\ ~HasPart(partOf, m)
                    /\ \A a \in Above(tree0, m, {}) : ~HasPart(partOf, a)

\* a slow-pick round has pruned a module and the modules below it from a
\* tree that still holds others
C18_Witness ==
    /\ RoundDone
    /\ TreeModules(tree) # {}
    /\ \E m \in TreeModules(tree0) \ TreeKeys(tree0) :
          m \notin TreeModules(tree) /\ ~HasPart(partOf, m)

=============================================================================
